---- MODULE Spec2Model ----
(***************************************************************************)
(* Account service of the clinical record platform: the user table (one    *)
(* row per account, unique email, self-referencing assignedDoctorId with   *)
(* ON DELETE SET NULL), the JWT login, the authenticateJWT / allowRoles    *)
(* middleware chain and the route handlers of the patient, doctor, admin   *)
(* and super-admin routers.  One action is one HTTP request handled from   *)
(* the first middleware to the response; the response stays in flight in   *)
(* `rsp` until Deliver hands it to the client.                             *)
(***************************************************************************)
EXTENDS Integers, Sequences, FiniteSets, TLC

VARIABLES
  users,    \* the user table: id -> row
  nextId,   \* the next primary key the store generates (ids are never reused)
  tokens,   \* the session tokens clients hold (issued by login)
  now,      \* the wall clock, in seconds
  secret,   \* process.env.JWT_SECRET
  rsp,      \* the request being answered: its inputs and its response
  pending,  \* the writes of requests that have read the table and await the store
  isolation \* how requests are scheduled: one after the other, or overlapping

vars == <<users, nextId, tokens, now, secret, rsp, pending, isolation>>

----------------------------------------------------------------------------
(* Bounds of the model *)

MaxUsers == 3
MaxTokens == 2
MaxClock == 5400
ClockStep == 1800
MaxPending == 2

----------------------------------------------------------------------------
(* Values *)

SUPER_ADMIN == "SUPER_ADMIN"
ADMIN == "ADMIN"
DOCTOR == "DOCTOR"
PATIENT == "PATIENT"
UserRole == {SUPER_ADMIN, ADMIN, DOCTOR, PATIENT}

\* ids: 1..MaxUsers are well-formed UUIDs; BadId is a string that is no UUID;
\* NULL is a null column / JSON null; UNDEF is a field the body does not carry
NULL == 0
BadId == -1
UNDEF == -2
Ids == 1..MaxUsers
IdInputs == Ids \cup {BadId}

\* a string field the body does not carry
Undef == "undefined"
NullStr == "null"

\* emails are character sequences, so that lower-casing is computed
RootEmail == <<"r", "x">>
NoEmail == <<>>

NoSecret == "unset"
SecretKey == "k-server"
OtherKey == "k-other"

TokenTTL == 3600

\* a request that never gets a response
Unanswered == 0

\* Serial: a request is answered before the next one is accepted.  Interleaved:
\* a handler yields at the await of its write, and other requests run between
\* its reads and its write.
Serial == "serial"
Interleaved == "interleaved"

----------------------------------------------------------------------------
(* Pure functions *)

LowerChar(c) ==
  CASE c = "A" -> "a"
    [] c = "B" -> "b"
    [] c = "R" -> "r"
    [] c = "X" -> "x"
    [] OTHER -> c

toLowerCase(s) == [i \in DOMAIN s |-> LowerChar(s[i])]

\* bcrypt.hash / bcrypt.compare: one-way, the salt is not modelled
bcryptHash(pw) == <<"$2b$10$", pw>>
bcryptCompare(pw, h) == h = bcryptHash(pw)

validateUUID(x) == x \in Ids

\* jsonwebtoken: a token is its payload and the key that signed it
NoTok == [fmt |-> "empty", id |-> 0, role |-> "", iat |-> 0, exp |-> 0, sig |-> ""]
Garbage == [fmt |-> "garbage", id |-> 0, role |-> "", iat |-> 0, exp |-> 0, sig |-> ""]

jwtSign(id, role, key, t) ==
  [fmt |-> "jwt", id |-> id, role |-> role, iat |-> t, exp |-> t + TokenTTL, sig |-> key]

\* verification with the expiry left unchecked
jwtVerifyIgnoreExpiration(tok, key, t) ==
  IF tok.fmt # "jwt" THEN [ok |-> FALSE, id |-> 0, role |-> ""]
  ELSE IF tok.sig # key THEN [ok |-> FALSE, id |-> 0, role |-> ""]
  ELSE [ok |-> TRUE, id |-> tok.id, role |-> tok.role]

jwtVerify(tok, key, t) ==
  IF tok.fmt # "jwt" THEN [ok |-> FALSE, id |-> 0, role |-> ""]
  ELSE IF tok.sig # key THEN [ok |-> FALSE, id |-> 0, role |-> ""]
  ELSE IF t >= tok.exp THEN [ok |-> FALSE, id |-> 0, role |-> ""]
  ELSE [ok |-> TRUE, id |-> tok.id, role |-> tok.role]

----------------------------------------------------------------------------
(* The store *)

Row(email, password, role, doc, firstName) ==
  [email |-> email, password |-> password, role |-> role,
   assignedDoctorId |-> doc, firstName |-> firstName]

Live == DOMAIN users

\* no row: a write that carries none
NoRow == Row(NoEmail, "", "", NULL, NullStr)

\* findOneBy({ email })
FindByEmail(e) == {i \in Live : users[i].email = e}

\* a lookup by id that forgets the role
FindByIdAnyRole(x, role) == {i \in Live : i = x}

\* findOneBy({ id, role })
FindByIdRole(x, role) == {i \in Live : i = x /\ users[i].role = role}

\* count({ where: { assignedDoctorId } })
CountAssigned(d) == Cardinality({i \in Live : users[i].assignedDoctorId = d})

\* what save() of `row` under key `id` ends in: the unique index on email and
\* the foreign key of assignedDoctorId are checked by the store
SaveOutcome(id, row) ==
  IF \E j \in Live \ {id} : users[j].email = row.email THEN "23505"
  ELSE IF row.assignedDoctorId # NULL /\ row.assignedDoctorId \notin Live THEN "23503"
  ELSE "ok"

Inserted(row) == users @@ (nextId :> row)

Updated(id, row) == [users EXCEPT ![id] = row]

\* a removal that leaves the rows referencing the removed one as they are
RemovedNoCascade(id) == [i \in Live \ {id} |-> users[i]]

\* remove(): the foreign key is ON DELETE SET NULL
Removed(id) ==
  [i \in Live \ {id} |->
     IF users[i].assignedDoctorId = id
     THEN [users[i] EXCEPT !.assignedDoctorId = NULL]
     ELSE users[i]]

----------------------------------------------------------------------------
(* Requests and responses *)

NoUser == [id |-> 0, role |-> "none"]
NoHeader == [scheme |-> "none", tok |-> NoTok]
Bearer(tok) == [scheme |-> "Bearer", tok |-> tok]
NoBody ==
  [email |-> NoEmail, password |-> Undef, firstName |-> Undef, doc |-> UNDEF,
   role |-> Undef]

Idle ==
  [op |-> "idle", hdr |-> NoHeader, id |-> 0, body |-> NoBody,
   status |-> 0, user |-> NoUser, ran |-> FALSE, n |-> 0, token |-> NoTok,
   msg |-> "", data |-> {}]

\* a response: `ran` says that the route handler was invoked, `user` is the
\* identity attached to the request, `n` a count the message carries, `msg` the
\* text of an error, `data` the accounts the JSON body shows
Response(op, hdr, id, body, status, user, ran, n) ==
  [op |-> op, hdr |-> hdr, id |-> id, body |-> body,
   status |-> status, user |-> user, ran |-> ran, n |-> n, token |-> NoTok,
   msg |-> "", data |-> {}]

\* the headers a client can send beside a token that login issued: none,
\* another scheme, an empty bearer, a malformed token, a token signed with
\* another key
Forged == {jwtSign(1, SUPER_ADMIN, OtherKey, now)}
BadHeaders ==
  {NoHeader, [scheme |-> "Basic", tok |-> Garbage], Bearer(NoTok), Bearer(Garbage)}
    \cup {Bearer(t) : t \in Forged}

----------------------------------------------------------------------------
(* middleware/auth *)

\* the gate that takes the second word of the header whatever the scheme
authenticateJWTAnyScheme(hdr) ==
  LET token == hdr.tok IN
  IF token = NoTok THEN [status |-> 401, user |-> NoUser]
  ELSE IF secret = NoSecret THEN [status |-> 500, user |-> NoUser]
  ELSE LET decoded == jwtVerify(token, secret, now) IN
       IF ~decoded.ok THEN [status |-> 403, user |-> NoUser]
       ELSE IF decoded.id \notin Live THEN [status |-> 403, user |-> NoUser]
       ELSE [status |-> 200,
             user |-> [id |-> decoded.id, role |-> users[decoded.id].role]]

\* the gate without the lookup of the account
authenticateJWTNoLookup(hdr) ==
  LET token == IF hdr.scheme = "Bearer" THEN hdr.tok ELSE NoTok IN
  IF token = NoTok THEN [status |-> 401, user |-> NoUser]
  ELSE IF secret = NoSecret THEN [status |-> 500, user |-> NoUser]
  ELSE LET decoded == jwtVerify(token, secret, now) IN
       IF ~decoded.ok THEN [status |-> 403, user |-> NoUser]
       ELSE [status |-> 200, user |-> [id |-> decoded.id, role |-> decoded.role]]

\* the gate that attaches the whole row of the account to the request
authenticateJWTWholeRow(hdr) ==
  LET token == IF hdr.scheme = "Bearer" THEN hdr.tok ELSE NoTok IN
  IF token = NoTok THEN [status |-> 401, user |-> NoUser]
  ELSE IF secret = NoSecret THEN [status |-> 500, user |-> NoUser]
  ELSE LET decoded == jwtVerify(token, secret, now) IN
       IF ~decoded.ok THEN [status |-> 403, user |-> NoUser]
       ELSE IF decoded.id \notin Live THEN [status |-> 403, user |-> NoUser]
       ELSE [status |-> 200,
             user |-> [id |-> decoded.id, role |-> users[decoded.id].role,
                       password |-> users[decoded.id].password]]

\* the gate that hands the token to jwt.verify without looking at the key:
\* verify throws and the catch block answers as for an invalid token
authenticateJWTKeyUnchecked(hdr) ==
  LET token == IF hdr.scheme = "Bearer" THEN hdr.tok ELSE NoTok IN
  IF token = NoTok THEN [status |-> 401, user |-> NoUser]
  ELSE LET decoded == jwtVerify(token, secret, now) IN
       IF secret = NoSecret \/ ~decoded.ok THEN [status |-> 403, user |-> NoUser]
       ELSE IF decoded.id \notin Live THEN [status |-> 403, user |-> NoUser]
       ELSE [status |-> 200,
             user |-> [id |-> decoded.id, role |-> users[decoded.id].role]]

authenticateJWT(hdr) ==
  LET token == IF hdr.scheme = "Bearer" THEN hdr.tok ELSE NoTok IN
  IF token = NoTok THEN [status |-> 401, user |-> NoUser]
  ELSE IF secret = NoSecret THEN [status |-> 500, user |-> NoUser]
  ELSE LET decoded == jwtVerify(token, secret, now) IN
       IF ~decoded.ok THEN [status |-> 403, user |-> NoUser]
       ELSE IF decoded.id \notin Live THEN [status |-> 403, user |-> NoUser]
       ELSE [status |-> 200,
             user |-> [id |-> decoded.id, role |-> users[decoded.id].role]]

\* a role check that lets every attached identity pass
allowRolesAnyIdentity(roles, user) == user.role \in UserRole

allowRoles(roles, user) == user.role \in roles

\* the status the two middlewares end the request with, 200 when they call next()
Gate(hdr, roles) ==
  LET a == authenticateJWT(hdr) IN
  IF a.status # 200 THEN a
  ELSE IF ~allowRoles(roles, a.user) THEN [status |-> 403, user |-> a.user]
  ELSE a

\* a request the middleware chain ends: the handler does not run
Rejected(op, hdr, id, roles) ==
  /\ Gate(hdr, roles).status # 200
  /\ rsp' = Response(op, hdr, id, NoBody, Gate(hdr, roles).status,
                     Gate(hdr, roles).user, FALSE, 0)
  /\ UNCHANGED <<users, nextId, tokens, now, secret, pending, isolation>>

\* the columns of the user table that the model keeps
Columns == {"id", "email", "password", "role", "assignedDoctorId", "firstName"}
Public == Columns \ {"password"}

\* a column that an object of a response does not have
Omitted == <<>>
NoRelation == [id |-> NULL, password |-> Omitted]

\* the object a response carries for account i: the columns of a select list,
\* a destructuring or a field list; the relation is not loaded
Selected(table, i, cols) ==
  [id |-> i,
   password |-> IF "password" \in cols THEN table[i].password ELSE Omitted,
   assignedDoctor |-> NoRelation]

\* find({ select: cols, relations: { assignedDoctor: true } }): the select list
\* names columns of the account; the joined doctor comes with every column
Joined(table, i, cols) ==
  LET d == table[i].assignedDoctorId IN
  [Selected(table, i, cols) EXCEPT
     !.assignedDoctor = IF d \in DOMAIN table
                        THEN [id |-> d, password |-> table[d].password]
                        ELSE NoRelation]

\* GET /admin/patients/:id: the joined doctor is reduced to id, firstName,
\* lastName and specialization
Reduced(view) ==
  [view EXCEPT !.password = Omitted,
               !.assignedDoctor = [id |-> @.id, password |-> Omitted]]

\* the handler answers without writing
Answer(op, hdr, id, body, status, n) ==
  /\ rsp' = Response(op, hdr, id, body, status, Gate(hdr, UserRole).user, TRUE, n)
  /\ UNCHANGED <<users, nextId, tokens, now, secret, pending, isolation>>

\* the handler answers 200 with objects read from the table
AnswerWith(op, hdr, id, data) ==
  /\ rsp' = [Response(op, hdr, id, NoBody, 200, Gate(hdr, UserRole).user, TRUE, 0)
               EXCEPT !.data = data]
  /\ UNCHANGED <<users, nextId, tokens, now, secret, pending, isolation>>

\* save() of an entity with a primary key updates the row, or inserts it when
\* the row is gone
Upserted(id, row) == IF id \in Live THEN Updated(id, row) ELSE users @@ (id :> row)

\* a write a handler hands to the store, with the status of each outcome:
\* `ok` on success, one of `dup` on a unique violation, one of `err` otherwise
Intent(kind, op, hdr, id, body, row, ok, dup, err) ==
  [kind |-> kind, op |-> op, hdr |-> hdr, id |-> id, body |-> body, row |-> row,
   user |-> Gate(hdr, UserRole).user, ok |-> ok, dup |-> dup, err |-> err,
   slot |-> CHOOSE k \in 1..(MaxPending + 1) :
              /\ \A w \in pending : w.slot # k
              /\ \A j \in 1..(k - 1) : \E w \in pending : w.slot = j]

\* the store executes the write `w` on the table as it is now, and the handler
\* answers
Settle(w) ==
  LET key == IF w.kind = "insert" THEN nextId ELSE w.id
      out == IF w.kind = "remove" THEN "ok" ELSE SaveOutcome(key, w.row)
  IN
  /\ IF out = "ok"
     THEN /\ w.kind = "insert" => nextId <= MaxUsers
          /\ users' = CASE w.kind = "insert" -> Inserted(w.row)
                        [] w.kind = "save" -> Upserted(w.id, w.row)
                        [] w.kind = "remove" -> Removed(w.id)
          /\ nextId' = IF w.kind = "insert" THEN nextId + 1 ELSE nextId
          /\ rsp' = [Response(w.op, w.hdr, key, w.body, w.ok, w.user, TRUE, 0)
                       EXCEPT !.data = IF w.kind = "remove" THEN {}
                                       ELSE {Selected(users', key, Public)}]
     ELSE /\ \E st \in (IF out = "23505" THEN w.dup ELSE w.err) :
               rsp' = Response(w.op, w.hdr, w.id, w.body, st, w.user, TRUE, 0)
          /\ UNCHANGED <<users, nextId>>
  /\ UNCHANGED <<tokens, now, secret, isolation>>

\* the handler awaits the write
Perform(w) ==
  IF isolation = Serial
  THEN Settle(w) /\ UNCHANGED pending
  ELSE /\ Cardinality(pending) < MaxPending
       /\ w.kind = "insert"
            => nextId + Cardinality({v \in pending : v.kind = "insert"}) <= MaxUsers
       /\ pending' = pending \cup {w}
       /\ UNCHANGED <<users, nextId, tokens, now, secret, rsp, isolation>>

\* userRepository.save(newUser), save(entity), remove(entity) and the response
Insert(op, hdr, body, row, dup, err) ==
  Perform(Intent("insert", op, hdr, 0, body, row, 201, dup, err))

Save(op, hdr, id, body, row, dup, err) ==
  Perform(Intent("save", op, hdr, id, body, row, 200, dup, err))

Remove(op, hdr, id) ==
  Perform(Intent("remove", op, hdr, id, NoBody, NoRow, 204, {500}, {500}))

\* the store executes the write of a request that was waiting for it
Commit ==
  /\ rsp = Idle
  /\ \E w \in pending : Settle(w) /\ pending' = pending \ {w}

----------------------------------------------------------------------------
(* routes/auth *)

\* a login that tells an unknown address from a wrong password
LoginFailureByCause(found) ==
  IF found = {} THEN [status |-> 404, msg |-> "User not found"]
  ELSE [status |-> 401, msg |-> "Invalid password"]

\* res.status(401).json({ error: 'Invalid credentials' })
LoginFailure(found) == [status |-> 401, msg |-> "Invalid credentials"]

Login(email, password) ==
  /\ rsp = Idle
  /\ LET body == [NoBody EXCEPT !.email = email, !.password = password]
         found == FindByEmail(toLowerCase(email))
     IN
     IF email = NoEmail
     THEN \* email.toLowerCase() of undefined throws: the error handler answers
          /\ rsp' = Response("Login", NoHeader, 0, body, 500, NoUser, TRUE, 0)
          /\ UNCHANGED <<users, nextId, tokens, now, secret, pending, isolation>>
     ELSE IF found = {} \/ \A i \in found : ~bcryptCompare(password, users[i].password)
     THEN /\ rsp' = [Response("Login", NoHeader, 0, body, LoginFailure(found).status,
                                NoUser, TRUE, 0)
                       EXCEPT !.msg = LoginFailure(found).msg]
          /\ UNCHANGED <<users, nextId, tokens, now, secret, pending, isolation>>
     ELSE IF secret = NoSecret
     THEN \* jwt.sign without a key throws
          /\ rsp' = Response("Login", NoHeader, 0, body, 500, NoUser, TRUE, 0)
          /\ UNCHANGED <<users, nextId, tokens, now, secret, pending, isolation>>
     ELSE \E i \in found :
          LET t == jwtSign(i, users[i].role, secret, now) IN
          /\ t \in tokens \/ Cardinality(tokens) < MaxTokens
          /\ tokens' = tokens \cup {t}
          /\ rsp' = [Response("Login", NoHeader, i, body, 200, NoUser, TRUE, 0)
                       EXCEPT !.token = t]
          /\ UNCHANGED <<users, nextId, now, secret, pending, isolation>>

----------------------------------------------------------------------------
(* routes/admin: doctors *)

AdminRoles == {ADMIN, SUPER_ADMIN}

\* the delete of a doctor without the count of the assigned patients
AdminDeleteDoctorUnguarded(hdr, id) ==
  /\ rsp = Idle
  /\ \/ Rejected("AdminDeleteDoctor", hdr, id, AdminRoles)
     \/ /\ Gate(hdr, AdminRoles).status = 200
        /\ IF ~validateUUID(id)
           THEN Answer("AdminDeleteDoctor", hdr, id, NoBody, 400, 0)
           ELSE IF FindByIdRole(id, DOCTOR) = {}
           THEN Answer("AdminDeleteDoctor", hdr, id, NoBody, 404, 0)
           ELSE Remove("AdminDeleteDoctor", hdr, id)

AdminDeleteDoctor(hdr, id) ==
  /\ rsp = Idle
  /\ \/ Rejected("AdminDeleteDoctor", hdr, id, AdminRoles)
     \/ /\ Gate(hdr, AdminRoles).status = 200
        /\ IF ~validateUUID(id)
           THEN Answer("AdminDeleteDoctor", hdr, id, NoBody, 400, 0)
           ELSE IF FindByIdRole(id, DOCTOR) = {}
           THEN Answer("AdminDeleteDoctor", hdr, id, NoBody, 404, 0)
           ELSE IF CountAssigned(id) > 0
           THEN Answer("AdminDeleteDoctor", hdr, id, NoBody, 409, CountAssigned(id))
           ELSE Remove("AdminDeleteDoctor", hdr, id)

AdminCreateDoctor(hdr, body) ==
  /\ rsp = Idle
  /\ \/ Rejected("AdminCreateDoctor", hdr, 0, AdminRoles)
     \/ /\ Gate(hdr, AdminRoles).status = 200
        /\ IF body.email = NoEmail \/ body.password = Undef \/ body.firstName = Undef
           THEN Answer("AdminCreateDoctor", hdr, 0, body, 400, 0)
           ELSE IF FindByEmail(toLowerCase(body.email)) # {}
           THEN Answer("AdminCreateDoctor", hdr, 0, body, 409, 0)
           ELSE Insert("AdminCreateDoctor", hdr, body,
                       Row(toLowerCase(body.email), bcryptHash(body.password),
                           DOCTOR, NULL, body.firstName),
                       {409}, {500})

AdminUpdateDoctor(hdr, id, body) ==
  /\ rsp = Idle
  /\ \/ Rejected("AdminUpdateDoctor", hdr, id, AdminRoles)
     \/ /\ Gate(hdr, AdminRoles).status = 200
        /\ IF ~validateUUID(id)
           THEN Answer("AdminUpdateDoctor", hdr, id, body, 400, 0)
           ELSE IF body.email = NoEmail /\ body.password = Undef /\ body.firstName = Undef
           THEN Answer("AdminUpdateDoctor", hdr, id, body, 400, 0)
           ELSE IF FindByIdRole(id, DOCTOR) = {}
           THEN Answer("AdminUpdateDoctor", hdr, id, body, 404, 0)
           ELSE
             LET doctor == users[id]
                 lowerCaseEmail == toLowerCase(body.email)
                 changesEmail == body.email # NoEmail /\ lowerCaseEmail # doctor.email
                 needsSave == \/ changesEmail \/ body.password # Undef
                              \/ body.firstName # Undef
                 row == [doctor EXCEPT
                           !.email = IF changesEmail THEN lowerCaseEmail ELSE @,
                           !.password = IF body.password # Undef
                                        THEN bcryptHash(body.password) ELSE @,
                           !.firstName = IF body.firstName # Undef
                                         THEN body.firstName ELSE @]
             IN
             IF changesEmail /\ \E j \in FindByEmail(lowerCaseEmail) : j # id
             THEN Answer("AdminUpdateDoctor", hdr, id, body, 409, 0)
             ELSE IF ~needsSave
             THEN /\ rsp' = [Response("AdminUpdateDoctor", hdr, id, body, 200,
                                       Gate(hdr, AdminRoles).user, TRUE, 0)
                               EXCEPT !.data = {Selected(users, id, Public)}]
                  /\ UNCHANGED <<users, nextId, tokens, now, secret, pending, isolation>>
             ELSE Save("AdminUpdateDoctor", hdr, id, body, row, {409}, {500})

AdminListDoctors(hdr) ==
  /\ rsp = Idle
  /\ \/ Rejected("AdminListDoctors", hdr, 0, AdminRoles)
     \/ /\ Gate(hdr, AdminRoles).status = 200
        /\ AnswerWith("AdminListDoctors", hdr, 0,
                      {Selected(users, i, Public) : i \in {j \in Live : users[j].role = DOCTOR}})

AdminGetDoctor(hdr, id) ==
  /\ rsp = Idle
  /\ \/ Rejected("AdminGetDoctor", hdr, id, AdminRoles)
     \/ /\ Gate(hdr, AdminRoles).status = 200
        /\ IF ~validateUUID(id)
           THEN Answer("AdminGetDoctor", hdr, id, NoBody, 400, 0)
           ELSE IF FindByIdRole(id, DOCTOR) = {}
           THEN Answer("AdminGetDoctor", hdr, id, NoBody, 404, 0)
           ELSE AnswerWith("AdminGetDoctor", hdr, id, {Selected(users, id, Public)})

----------------------------------------------------------------------------
(* routes/admin: patients *)

AdminListPatients(hdr) ==
  /\ rsp = Idle
  /\ \/ Rejected("AdminListPatients", hdr, 0, AdminRoles)
     \/ /\ Gate(hdr, AdminRoles).status = 200
        /\ AnswerWith("AdminListPatients", hdr, 0,
                      {Joined(users, i, Public) : i \in {j \in Live : users[j].role = PATIENT}})

AdminGetPatient(hdr, id) ==
  /\ rsp = Idle
  /\ \/ Rejected("AdminGetPatient", hdr, id, AdminRoles)
     \/ /\ Gate(hdr, AdminRoles).status = 200
        /\ IF ~validateUUID(id)
           THEN Answer("AdminGetPatient", hdr, id, NoBody, 400, 0)
           ELSE IF FindByIdRole(id, PATIENT) = {}
           THEN Answer("AdminGetPatient", hdr, id, NoBody, 404, 0)
           ELSE AnswerWith("AdminGetPatient", hdr, id,
                           {Reduced(Joined(users, id, Public))})

AdminCreatePatient(hdr, body) ==
  /\ rsp = Idle
  /\ \/ Rejected("AdminCreatePatient", hdr, 0, AdminRoles)
     \/ /\ Gate(hdr, AdminRoles).status = 200
        /\ IF \/ body.email = NoEmail \/ body.password = Undef
              \/ body.firstName = Undef \/ body.doc \in {UNDEF, NULL}
           THEN Answer("AdminCreatePatient", hdr, 0, body, 400, 0)
           ELSE IF ~validateUUID(body.doc)
           THEN Answer("AdminCreatePatient", hdr, 0, body, 400, 0)
           ELSE IF FindByEmail(toLowerCase(body.email)) # {}
           THEN Answer("AdminCreatePatient", hdr, 0, body, 409, 0)
           ELSE IF FindByIdRole(body.doc, DOCTOR) = {}
           THEN Answer("AdminCreatePatient", hdr, 0, body, 404, 0)
           ELSE Insert("AdminCreatePatient", hdr, body,
                       Row(toLowerCase(body.email), bcryptHash(body.password),
                           PATIENT, body.doc, body.firstName),
                       {409}, {500})

\* the row the admin patient update would save, before the doctor is looked up
\* the update that sets a doctor and never clears one
PatchedPatientKeepsDoctor(patient, body) ==
  [patient EXCEPT
     !.email = IF body.email # NoEmail THEN toLowerCase(body.email) ELSE @,
     !.password = IF body.password # Undef THEN bcryptHash(body.password) ELSE @,
     !.firstName = IF body.firstName # Undef THEN body.firstName ELSE @,
     !.assignedDoctorId = IF body.doc \notin {UNDEF, NULL} THEN body.doc ELSE @]

PatchedPatient(patient, body) ==
  [patient EXCEPT
     !.email = IF body.email # NoEmail THEN toLowerCase(body.email) ELSE @,
     !.password = IF body.password # Undef THEN bcryptHash(body.password) ELSE @,
     !.firstName = IF body.firstName # Undef THEN body.firstName ELSE @,
     !.assignedDoctorId = IF body.doc # UNDEF THEN body.doc ELSE @]

\* the assignment branch that refuses the doctor the patient already has
AssignmentStatusNoRepeat(patient, doc) ==
  IF doc \in {UNDEF, NULL} THEN 200
  ELSE IF ~validateUUID(doc) THEN 400
  ELSE IF doc = patient.assignedDoctorId THEN 409
  ELSE IF FindByIdRole(doc, DOCTOR) = {} THEN 404
  ELSE 200

\* the assignedDoctorId branch of PUT /admin/patients/:id: the status it ends
\* the request with, 200 when the handler goes on; the doctor is looked up
\* only when it differs from the one the patient has
AssignmentStatus(patient, doc) ==
  IF doc \in {UNDEF, NULL} THEN 200
  ELSE IF ~validateUUID(doc) THEN 400
  ELSE IF doc # patient.assignedDoctorId /\ FindByIdRole(doc, DOCTOR) = {} THEN 404
  ELSE 200

AdminUpdatePatient(hdr, id, body) ==
  /\ rsp = Idle
  /\ \/ Rejected("AdminUpdatePatient", hdr, id, AdminRoles)
     \/ /\ Gate(hdr, AdminRoles).status = 200
        /\ IF ~validateUUID(id)
           THEN Answer("AdminUpdatePatient", hdr, id, body, 400, 0)
           ELSE IF /\ body.email = NoEmail /\ body.password = Undef
                   /\ body.firstName = Undef /\ body.doc = UNDEF
           THEN Answer("AdminUpdatePatient", hdr, id, body, 400, 0)
           ELSE IF FindByIdRole(id, PATIENT) = {}
           THEN Answer("AdminUpdatePatient", hdr, id, body, 404, 0)
           ELSE
             LET patient == users[id]
                 lowerCaseEmail == toLowerCase(body.email)
                 changesEmail == body.email # NoEmail /\ lowerCaseEmail # patient.email
                 changesDoctor == body.doc \notin {UNDEF, NULL}
                                    /\ body.doc # patient.assignedDoctorId
                 needsSave == \/ body.firstName # Undef \/ changesEmail
                              \/ body.password # Undef \/ changesDoctor
                              \/ body.doc = NULL /\ patient.assignedDoctorId # NULL
                 row == PatchedPatient(patient, body)
             IN
             IF changesEmail /\ \E j \in FindByEmail(lowerCaseEmail) : j # id
             THEN Answer("AdminUpdatePatient", hdr, id, body, 409, 0)
             ELSE IF AssignmentStatus(patient, body.doc) # 200
             THEN Answer("AdminUpdatePatient", hdr, id, body,
                         AssignmentStatus(patient, body.doc), 0)
             ELSE IF ~needsSave
             THEN /\ rsp' = [Response("AdminUpdatePatient", hdr, id, body, 200,
                                       Gate(hdr, AdminRoles).user, TRUE, 0)
                               EXCEPT !.data = {Selected(users, id, Public)}]
                  /\ UNCHANGED <<users, nextId, tokens, now, secret, pending, isolation>>
             ELSE Save("AdminUpdatePatient", hdr, id, body, row, {409}, {500})

\* the patient delete that looks the account up by id alone
AdminDeletePatientAnyRole(hdr, id) ==
  /\ rsp = Idle
  /\ \/ Rejected("AdminDeletePatient", hdr, id, AdminRoles)
     \/ /\ Gate(hdr, AdminRoles).status = 200
        /\ IF ~validateUUID(id)
           THEN Answer("AdminDeletePatient", hdr, id, NoBody, 400, 0)
           ELSE IF id \notin Live
           THEN Answer("AdminDeletePatient", hdr, id, NoBody, 404, 0)
           ELSE Remove("AdminDeletePatient", hdr, id)

AdminDeletePatient(hdr, id) ==
  /\ rsp = Idle
  /\ \/ Rejected("AdminDeletePatient", hdr, id, AdminRoles)
     \/ /\ Gate(hdr, AdminRoles).status = 200
        /\ IF ~validateUUID(id)
           THEN Answer("AdminDeletePatient", hdr, id, NoBody, 400, 0)
           ELSE IF FindByIdRole(id, PATIENT) = {}
           THEN Answer("AdminDeletePatient", hdr, id, NoBody, 404, 0)
           ELSE Remove("AdminDeletePatient", hdr, id)

----------------------------------------------------------------------------
(* routes/patient *)

AnyRole == {PATIENT, ADMIN, DOCTOR, SUPER_ADMIN}

\* an exception that reaches no catch block: the framework either leaves the
\* request unanswered or answers 500, by its version
Unhandled(op, hdr, id, body) ==
  \E st \in {Unanswered, 500} : Answer(op, hdr, id, body, st, 0)

Register(body) ==
  /\ rsp = Idle
  /\ IF body.email = NoEmail \/ body.password = Undef
     THEN Answer("Register", NoHeader, 0, body, 400, 0)
     ELSE IF FindByEmail(toLowerCase(body.email)) # {}
     THEN Answer("Register", NoHeader, 0, body, 409, 0)
     ELSE IF body.doc \notin {UNDEF, NULL} /\ ~validateUUID(body.doc)
     THEN \* the uuid column rejects the value: the query fails
          Answer("Register", NoHeader, 0, body, 500, 0)
     ELSE IF body.doc \notin {UNDEF, NULL} /\ FindByIdRole(body.doc, DOCTOR) = {}
     THEN Answer("Register", NoHeader, 0, body, 400, 0)
     ELSE Insert("Register", NoHeader, body,
                 Row(toLowerCase(body.email), bcryptHash(body.password), PATIENT,
                     IF body.doc \in {UNDEF, NULL} THEN NULL ELSE body.doc, NullStr),
                 {409}, {500})

PatientGetMe(hdr) ==
  /\ rsp = Idle
  /\ \/ Rejected("PatientGetMe", hdr, 0, AnyRole)
     \/ /\ Gate(hdr, AnyRole).status = 200
        /\ LET userId == Gate(hdr, AnyRole).user.id IN
           AnswerWith("PatientGetMe", hdr, userId,
                      {Selected(users, userId, {"id", "email", "role", "assignedDoctorId"})})

\* PUT /patients/me with the role field of the body written to the row
PatchedMeWithRole(patient, body) ==
  [patient EXCEPT
     !.email = IF body.email # NoEmail THEN toLowerCase(body.email) ELSE @,
     !.password = IF body.password # Undef THEN bcryptHash(body.password) ELSE @,
     !.assignedDoctorId = IF body.doc \notin {UNDEF, NULL} THEN body.doc ELSE @,
     !.role = IF body.role # Undef THEN body.role ELSE @]

\* the row PUT /patients/me saves: email, password and doctorId are read
\* from the body, nothing else
PatchedMe(patient, body) ==
  [patient EXCEPT
     !.email = IF body.email # NoEmail THEN toLowerCase(body.email) ELSE @,
     !.password = IF body.password # Undef THEN bcryptHash(body.password) ELSE @,
     !.assignedDoctorId = IF body.doc \notin {UNDEF, NULL} THEN body.doc ELSE @]

PatientPutMe(hdr, body) ==
  /\ rsp = Idle
  /\ \/ Rejected("PatientPutMe", hdr, 0, AnyRole)
     \/ /\ Gate(hdr, AnyRole).status = 200
        /\ LET userId == Gate(hdr, AnyRole).user.id
               patient == users[userId]
               lowerCaseEmail == toLowerCase(body.email)
               row == PatchedMe(patient, body)
           IN
           IF body.email # NoEmail /\ \E j \in FindByEmail(lowerCaseEmail) : j # userId
           THEN Answer("PatientPutMe", hdr, userId, body, 409, 0)
           ELSE IF body.doc \notin {UNDEF, NULL} /\ ~validateUUID(body.doc)
           THEN Answer("PatientPutMe", hdr, userId, body, 500, 0)
           ELSE IF body.doc \notin {UNDEF, NULL} /\ FindByIdRole(body.doc, DOCTOR) = {}
           THEN Answer("PatientPutMe", hdr, userId, body, 400, 0)
           ELSE Save("PatientPutMe", hdr, userId, body, row, {409}, {500})

PatientDeleteMe(hdr) ==
  /\ rsp = Idle
  /\ \/ Rejected("PatientDeleteMe", hdr, 0, AnyRole)
     \/ /\ Gate(hdr, AnyRole).status = 200
        /\ Remove("PatientDeleteMe", hdr, Gate(hdr, AnyRole).user.id)

----------------------------------------------------------------------------
(* routes/doctor *)

DoctorMeRoles == {DOCTOR, ADMIN, SUPER_ADMIN}

\* the patient row with the doctor taken from the body when it names one
RegisteredPatientFromBody(doctorId, body) ==
  Row(toLowerCase(body.email), bcryptHash(body.password), PATIENT,
      IF body.doc \in Ids THEN body.doc ELSE doctorId,
      IF body.firstName = Undef THEN NullStr ELSE body.firstName)

\* the row POST /doctors/register-patient saves: role PATIENT, assigned to
\* the authenticated doctor
RegisteredPatient(doctorId, body) ==
  Row(toLowerCase(body.email), bcryptHash(body.password), PATIENT, doctorId,
      IF body.firstName = Undef THEN NullStr ELSE body.firstName)

DoctorRegisterPatient(hdr, body) ==
  /\ rsp = Idle
  /\ \/ Rejected("DoctorRegisterPatient", hdr, 0, {DOCTOR})
     \/ /\ Gate(hdr, {DOCTOR}).status = 200
        /\ LET doctorId == Gate(hdr, {DOCTOR}).user.id
               row == RegisteredPatient(doctorId, body)
           IN
           IF body.email = NoEmail \/ body.password = Undef
           THEN Answer("DoctorRegisterPatient", hdr, 0, body, 400, 0)
           ELSE IF FindByEmail(toLowerCase(body.email)) # {}
           THEN Answer("DoctorRegisterPatient", hdr, 0, body, 409, 0)
           ELSE Insert("DoctorRegisterPatient", hdr, body, row, {409}, {500})

DoctorGetMe(hdr) ==
  /\ rsp = Idle
  /\ \/ Rejected("DoctorGetMe", hdr, 0, DoctorMeRoles)
     \/ /\ Gate(hdr, DoctorMeRoles).status = 200
        /\ LET doctorId == Gate(hdr, DoctorMeRoles).user.id IN
           IF FindByIdRole(doctorId, DOCTOR) = {}
           THEN Answer("DoctorGetMe", hdr, doctorId, NoBody, 404, 0)
           ELSE AnswerWith("DoctorGetMe", hdr, doctorId,
                           {Selected(users, doctorId, {"id", "email", "firstName"})})

DoctorPutMe(hdr, body) ==
  /\ rsp = Idle
  /\ \/ Rejected("DoctorPutMe", hdr, 0, DoctorMeRoles)
     \/ /\ Gate(hdr, DoctorMeRoles).status = 200
        /\ LET doctorId == Gate(hdr, DoctorMeRoles).user.id
               doctor == users[doctorId]
               lowerCaseEmail == toLowerCase(body.email)
               row == [doctor EXCEPT
                         !.email = IF body.email # NoEmail THEN lowerCaseEmail ELSE @,
                         !.password = IF body.password # Undef
                                      THEN bcryptHash(body.password) ELSE @,
                         !.firstName = IF body.firstName # Undef
                                       THEN body.firstName ELSE @]
           IN
           IF body.email # NoEmail /\ \E j \in FindByEmail(lowerCaseEmail) : j # doctorId
           THEN Answer("DoctorPutMe", hdr, doctorId, body, 409, 0)
           ELSE Save("DoctorPutMe", hdr, doctorId, body, row, {409}, {500})

DoctorDeleteMe(hdr) ==
  /\ rsp = Idle
  /\ \/ Rejected("DoctorDeleteMe", hdr, 0, DoctorMeRoles)
     \/ /\ Gate(hdr, DoctorMeRoles).status = 200
        /\ LET doctorId == Gate(hdr, DoctorMeRoles).user.id IN
           IF FindByIdRole(doctorId, DOCTOR) = {}
           THEN Answer("DoctorDeleteMe", hdr, doctorId, NoBody, 404, 0)
           ELSE Remove("DoctorDeleteMe", hdr, doctorId)

----------------------------------------------------------------------------
(* routes/superAdmin: no handler of this router catches an exception *)

\* the admin row with the role taken from the body when it names one
CreatedAdminWithBodyRole(body) ==
  Row(body.email, bcryptHash(body.password),
      IF body.role # Undef THEN body.role ELSE ADMIN, NULL, NullStr)

\* the row POST /super-admin/admins saves: the email as given, role ADMIN
CreatedAdmin(body) == Row(body.email, bcryptHash(body.password), ADMIN, NULL, NullStr)

SuperCreateAdmin(hdr, body) ==
  /\ rsp = Idle
  /\ \/ Rejected("SuperCreateAdmin", hdr, 0, {SUPER_ADMIN})
     \/ /\ Gate(hdr, {SUPER_ADMIN}).status = 200
        /\ LET row == CreatedAdmin(body) IN
           IF body.password = Undef \/ body.email = NoEmail
           THEN \* bcrypt.hash(undefined) throws; a null email violates NOT NULL
                Unhandled("SuperCreateAdmin", hdr, 0, body)
           ELSE Insert("SuperCreateAdmin", hdr, body, row,
                       {Unanswered, 500}, {Unanswered, 500})

SuperListAdmins(hdr) ==
  /\ rsp = Idle
  /\ \/ Rejected("SuperListAdmins", hdr, 0, {SUPER_ADMIN})
     \/ /\ Gate(hdr, {SUPER_ADMIN}).status = 200
        /\ AnswerWith("SuperListAdmins", hdr, 0,
                      {Selected(users, i, {"id", "email", "role"}) :
                         i \in {j \in Live : users[j].role = ADMIN}})

SuperGetAdmin(hdr, id) ==
  /\ rsp = Idle
  /\ \/ Rejected("SuperGetAdmin", hdr, id, {SUPER_ADMIN})
     \/ /\ Gate(hdr, {SUPER_ADMIN}).status = 200
        /\ IF ~validateUUID(id)
           THEN Unhandled("SuperGetAdmin", hdr, id, NoBody)
           ELSE IF FindByIdRole(id, ADMIN) = {}
           THEN Answer("SuperGetAdmin", hdr, id, NoBody, 404, 0)
           ELSE AnswerWith("SuperGetAdmin", hdr, id,
                           {Selected(users, id, {"id", "email", "role"})})

SuperUpdateAdmin(hdr, id, body) ==
  /\ rsp = Idle
  /\ \/ Rejected("SuperUpdateAdmin", hdr, id, {SUPER_ADMIN})
     \/ /\ Gate(hdr, {SUPER_ADMIN}).status = 200
        /\ IF ~validateUUID(id)
           THEN Unhandled("SuperUpdateAdmin", hdr, id, body)
           ELSE IF FindByIdRole(id, ADMIN) = {}
           THEN Answer("SuperUpdateAdmin", hdr, id, body, 404, 0)
           ELSE
             LET admin == users[id]
                 row == [admin EXCEPT
                           !.email = IF body.email # NoEmail THEN body.email ELSE @,
                           !.password = IF body.password # Undef
                                        THEN bcryptHash(body.password) ELSE @]
             IN
             Save("SuperUpdateAdmin", hdr, id, body, row,
                  {Unanswered, 500}, {Unanswered, 500})

SuperDeleteAdmin(hdr, id) ==
  /\ rsp = Idle
  /\ \/ Rejected("SuperDeleteAdmin", hdr, id, {SUPER_ADMIN})
     \/ /\ Gate(hdr, {SUPER_ADMIN}).status = 200
        /\ IF ~validateUUID(id)
           THEN Unhandled("SuperDeleteAdmin", hdr, id, NoBody)
           ELSE IF FindByIdRole(id, ADMIN) = {}
           THEN Answer("SuperDeleteAdmin", hdr, id, NoBody, 404, 0)
           ELSE Remove("SuperDeleteAdmin", hdr, id)

----------------------------------------------------------------------------
(* The clock and the delivery of a response *)

Tick ==
  /\ rsp = Idle
  /\ now + ClockStep <= MaxClock
  /\ now' = now + ClockStep
  /\ UNCHANGED <<users, nextId, tokens, secret, rsp, pending, isolation>>

Deliver ==
  /\ rsp # Idle
  /\ rsp' = Idle
  /\ UNCHANGED <<users, nextId, tokens, now, secret, pending, isolation>>

----------------------------------------------------------------------------

Root == Row(RootEmail, bcryptHash("pw1"), SUPER_ADMIN, NULL, NullStr)

Init ==
  /\ users = (1 :> Root)
  /\ nextId = 2
  /\ tokens = {}
  /\ now = 0
  /\ secret \in {SecretKey, NoSecret}
  /\ rsp = Idle
  /\ pending = {}
  /\ isolation = Serial

\* the bodies a client sends
Body(e, p, f, d) ==
  [email |-> e, password |-> p, firstName |-> f, doc |-> d, role |-> Undef]

\* the same bodies, and each with a role field beside its fields
WithRole(bodies, role) == bodies \cup {[b EXCEPT !.role = role] : b \in bodies}

\* creation requests: every field present, or one of email and password missing
CreateBodies(Em, Pw, Nm, Dc) ==
  {b \in {Body(e, p, f, d) : e \in Em \cup {NoEmail}, p \in Pw \cup {Undef},
                            f \in Nm, d \in Dc} :
     b.email # NoEmail \/ b.password # Undef}

\* update requests: any subset of the fields
PatchBodies(Em, Pw, Nm, Dc) ==
  {Body(e, p, f, d) : e \in Em \cup {NoEmail}, p \in Pw \cup {Undef},
                      f \in Nm \cup {Undef}, d \in Dc \cup {UNDEF}}

\* every endpoint, with the requests the environment E sends to it; clients
\* stop creating accounts once E.cap ids are in use
Requests(E) ==
  \/ \E c \in E.login : Login(c[1], c[2])
  \/ \E b \in E.reg : nextId <= E.cap /\ Register(b)
  \/ \E h \in E.bad \cup {Bearer(t) : t \in tokens} : PatientGetMe(h)
  \/ \E h \in E.bad \cup {Bearer(t) : t \in tokens}, b \in E.me : PatientPutMe(h, b)
  \/ \E h \in E.bad \cup {Bearer(t) : t \in tokens} : PatientDeleteMe(h)
  \/ \E h \in E.bad \cup {Bearer(t) : t \in tokens}, b \in E.dreg :
        nextId <= E.cap /\ DoctorRegisterPatient(h, b)
  \/ \E h \in E.bad \cup {Bearer(t) : t \in tokens}, b \in E.dme : DoctorPutMe(h, b)
  \/ \E h \in E.bad \cup {Bearer(t) : t \in tokens} : DoctorDeleteMe(h)
  \/ \E h \in E.bad \cup {Bearer(t) : t \in tokens}, b \in E.ndoc :
        nextId <= E.cap /\ AdminCreateDoctor(h, b)
  \/ \E h \in E.bad \cup {Bearer(t) : t \in tokens}, i \in E.ids, b \in E.pdoc :
        AdminUpdateDoctor(h, i, b)
  \/ \E h \in E.bad \cup {Bearer(t) : t \in tokens}, i \in E.ids : AdminDeleteDoctor(h, i)
  \/ \E h \in E.bad \cup {Bearer(t) : t \in tokens}, b \in E.npat :
        nextId <= E.cap /\ AdminCreatePatient(h, b)
  \/ \E h \in E.bad \cup {Bearer(t) : t \in tokens}, i \in E.ids, b \in E.ppat :
        AdminUpdatePatient(h, i, b)
  \/ \E h \in E.bad \cup {Bearer(t) : t \in tokens}, i \in E.ids : AdminDeletePatient(h, i)
  \/ \E h \in E.bad \cup {Bearer(t) : t \in tokens}, b \in E.nadm :
        nextId <= E.cap /\ SuperCreateAdmin(h, b)
  \/ \E h \in E.bad \cup {Bearer(t) : t \in tokens}, i \in E.ids, b \in E.padm :
        SuperUpdateAdmin(h, i, b)
  \/ \E h \in E.bad \cup {Bearer(t) : t \in tokens}, i \in E.ids : SuperDeleteAdmin(h, i)
  \/ \E h \in E.bad \cup {Bearer(t) : t \in tokens} : DoctorGetMe(h)
  \/ \E h \in E.bad \cup {Bearer(t) : t \in tokens} : AdminListDoctors(h)
  \/ \E h \in E.bad \cup {Bearer(t) : t \in tokens}, i \in E.ids : AdminGetDoctor(h, i)
  \/ \E h \in E.bad \cup {Bearer(t) : t \in tokens} : AdminListPatients(h)
  \/ \E h \in E.bad \cup {Bearer(t) : t \in tokens}, i \in E.ids : AdminGetPatient(h, i)
  \/ \E h \in E.bad \cup {Bearer(t) : t \in tokens} : SuperListAdmins(h)
  \/ \E h \in E.bad \cup {Bearer(t) : t \in tokens}, i \in E.ids : SuperGetAdmin(h, i)

----------------------------------------------------------------------------
(* The assignment scenarios: two addresses, every doctor id; an update that *)
(* carries another field beside the doctor id names the root account, which *)
(* is never a doctor                                                        *)

EmailA == <<"a", "x">>
EmailUpperA == <<"A", "x">>
EmailB == <<"b", "x">>
EmailC == <<"c", "x">>

AssignDocs == IdInputs \cup {NULL}

AssignEnv ==
  [login |-> {<<RootEmail, "pw1">>, <<EmailA, "pw1">>, <<NoEmail, "pw1">>},
   bad |-> {NoHeader},
   reg |-> CreateBodies({EmailA, EmailB}, {"pw1"}, {Undef}, AssignDocs \cup {UNDEF})
            \cup {[Body(e, "pw1", Undef, UNDEF) EXCEPT !.role = ADMIN] :
                    e \in {EmailA, EmailB}},
   me |-> WithRole(PatchBodies({}, {}, {}, {}), ADMIN) \cup PatchBodies({}, {}, {}, AssignDocs)
            \cup {Body(e, p, Undef, 1) : e \in {EmailC, NoEmail}, p \in {"pw2", Undef}},
   dreg |-> CreateBodies({EmailA, EmailB}, {"pw1"}, {"n1", Undef}, {UNDEF})
             \cup {Body(EmailB, "pw1", Undef, d) : d \in {1, NULL, BadId}}
             \cup {[Body(EmailB, "pw1", Undef, 1) EXCEPT !.role = ADMIN]},
   dme |-> WithRole(PatchBodies({}, {}, {}, {}), ADMIN),
   ndoc |-> CreateBodies({EmailA, EmailB}, {"pw1"}, {"n1", Undef}, {UNDEF}),
   pdoc |-> WithRole(PatchBodies({}, {}, {}, {}), ADMIN),
   npat |-> CreateBodies({EmailA, EmailB}, {"pw1"}, {"n1", Undef}, AssignDocs \cup {UNDEF}),
   ppat |-> WithRole(PatchBodies({}, {}, {}, {}), DOCTOR) \cup PatchBodies({}, {}, {}, AssignDocs)
              \cup {Body(e, p, f, 1) : e \in {EmailC, NoEmail}, p \in {"pw2", Undef},
                                       f \in {"n2", Undef}},
   nadm |-> CreateBodies({EmailA, EmailB}, {"pw1"}, {Undef}, {UNDEF})
             \cup {[Body(EmailA, "pw1", Undef, UNDEF) EXCEPT !.role = SUPER_ADMIN]},
   padm |-> WithRole(PatchBodies({}, {}, {}, {}), SUPER_ADMIN),
   ids |-> IdInputs,
   cap |-> MaxUsers]

Next == Requests(AssignEnv) \/ Deliver

Spec == Init /\ [][Next]_vars

----------------------------------------------------------------------------
(* The address scenarios: one address in two casings and a second address,  *)
(* sent to every endpoint that creates an account or changes an address     *)

EmailEnv ==
  [login |-> {<<RootEmail, "pw1">>, <<EmailA, "pw1">>, <<EmailUpperA, "pw1">>},
   bad |-> {NoHeader},
   reg |-> CreateBodies({EmailA, EmailUpperA}, {"pw1"}, {Undef}, {UNDEF}),
   me |-> PatchBodies({EmailA, EmailUpperA}, {}, {}, {}),
   dreg |-> CreateBodies({EmailA, EmailUpperA}, {"pw1"}, {"n1"}, {UNDEF}),
   dme |-> PatchBodies({EmailA, EmailUpperA}, {}, {}, {}),
   ndoc |-> CreateBodies({EmailA, EmailUpperA, EmailB}, {"pw1"}, {"n1"}, {UNDEF}),
   pdoc |-> PatchBodies({EmailA, EmailUpperA}, {}, {}, {}),
   npat |-> CreateBodies({EmailA, EmailUpperA}, {"pw1"}, {"n1"}, Ids),
   ppat |-> PatchBodies({EmailA, EmailUpperA}, {}, {}, {}),
   nadm |-> CreateBodies({EmailA, EmailUpperA}, {"pw1"}, {"n1"}, {UNDEF}),
   padm |-> PatchBodies({EmailA, EmailUpperA}, {}, {}, {}),
   ids |-> IdInputs,
   cap |-> MaxUsers]

NextEmail == Requests(EmailEnv) \/ Deliver

SpecEmail == Init /\ [][NextEmail]_vars

----------------------------------------------------------------------------
(* The token scenarios: every kind of header, a clock that passes the       *)
(* expiry of a token, accounts that are removed while their tokens live     *)

AuthEnv ==
  [login |-> {<<RootEmail, "pw1">>, <<EmailA, "pw1">>, <<EmailA, "pw2">>},
   bad |-> BadHeaders,
   reg |-> CreateBodies({EmailA}, {"pw1"}, {Undef}, {UNDEF}),
   me |-> PatchBodies({}, {}, {}, {}),
   dreg |-> CreateBodies({EmailB}, {"pw1"}, {"n1"}, {UNDEF}),
   dme |-> PatchBodies({}, {}, {}, {}),
   ndoc |-> CreateBodies({EmailA}, {"pw1"}, {"n1"}, {UNDEF}),
   pdoc |-> PatchBodies({}, {}, {}, {}),
   npat |-> CreateBodies({EmailA}, {"pw1"}, {"n1"}, {UNDEF}),
   ppat |-> PatchBodies({}, {}, {}, {}),
   nadm |-> CreateBodies({EmailA}, {"pw1"}, {"n1"}, {UNDEF}),
   padm |-> PatchBodies({}, {}, {}, {}),
   ids |-> {2, BadId},
   cap |-> MaxUsers]

NextAuth == Requests(AuthEnv) \/ Deliver \/ Tick

SpecAuth == Init /\ [][NextAuth]_vars

----------------------------------------------------------------------------
(* The overlapping scenarios: the requests of the assignment scenarios sent *)
(* while the writes of earlier requests are still awaited                   *)

RaceEnv ==
  [login |-> {<<RootEmail, "pw1">>},
   bad |-> {NoHeader},
   reg |-> {Body(EmailB, "pw1", Undef, d) : d \in {2, UNDEF}},
   me |-> {Body(NoEmail, Undef, Undef, 2)},
   dreg |-> {Body(EmailB, "pw1", "n1", UNDEF)},
   dme |-> PatchBodies({}, {}, {}, {}),
   ndoc |-> {Body(EmailA, "pw1", "n1", UNDEF)},
   pdoc |-> {Body(NoEmail, Undef, "n2", UNDEF)},
   npat |-> {Body(EmailB, "pw1", "n1", 2)},
   ppat |-> {Body(NoEmail, Undef, Undef, d) : d \in {2, NULL}},
   nadm |-> {Body(EmailB, "pw1", Undef, UNDEF)},
   padm |-> PatchBodies({}, {}, {}, {}),
   ids |-> {2, 3},
   cap |-> MaxUsers]

\* either scheduling: the assignment scenarios one request after the other,
\* or the requests above with their writes awaited
InitAnyOrder ==
  /\ users = (1 :> Root)
  /\ nextId = 2
  /\ tokens = {}
  /\ now = 0
  /\ secret = SecretKey
  /\ rsp = Idle
  /\ pending = {}
  /\ isolation \in {Serial, Interleaved}

NextAnyOrder ==
  \/ isolation = Serial /\ Requests(AssignEnv)
  \/ isolation = Interleaved /\ Requests(RaceEnv)
  \/ Commit
  \/ Deliver

SpecAnyOrder == InitAnyOrder /\ [][NextAnyOrder]_vars

----------------------------------------------------------------------------
(* Properties *)

\* the accounts of `table` that reference `d`
AssignedTo(table, d) == {i \in DOMAIN table : table[i].assignedDoctorId = d}

IsDoctor(table, x) == x \in DOMAIN table /\ table[x].role = DOCTOR

\* C1: an admin delete of doctor d that n > 0 accounts reference answers 409
\* with n in the message and leaves the table as it is; with no account
\* referencing d it answers 204 and d is gone.
C1_AdminDeleteDoctorGuard ==
  [][(/\ rsp'.op = "AdminDeleteDoctor"
      /\ rsp'.ran
      /\ IsDoctor(users, rsp'.id))
     => LET n == Cardinality(AssignedTo(users, rsp'.id)) IN
        IF n > 0
        THEN rsp'.status = 409 /\ rsp'.n = n /\ users' = users
        ELSE rsp'.status = 204 /\ rsp'.id \notin DOMAIN users']_vars

\* the admin delete succeeds on a doctor whose one patient, created with an
\* assignment by an administrator, has been unassigned
C1_Witness ==
  /\ rsp.op = "AdminDeleteDoctor"
  /\ rsp.status = 204
  /\ rsp.id \notin Live
  /\ \E i \in Live : /\ users[i].role = PATIENT
                     /\ users[i].firstName = "n1"
                     /\ users[i].password = bcryptHash("pw1")
                     /\ users[i].assignedDoctorId = NULL

\* C2: every operation that removes a doctor account is refused with 409, and
\* removes nothing, while an account references the doctor.
C2_EveryDoctorDeleteGuarded ==
  [][(/\ rsp'.op \in {"AdminDeleteDoctor", "DoctorDeleteMe", "PatientDeleteMe"}
      /\ rsp'.ran
      /\ IsDoctor(users, rsp'.id)
      /\ AssignedTo(users, rsp'.id) # {})
     => rsp'.status = 409 /\ rsp'.id \in DOMAIN users']_vars

\* C3: every non-null assignedDoctorId references a live account whose role
\* is DOCTOR, whatever the order of the requests and of their awaited writes.
C3_AssignmentReferencesDoctor ==
  \A i \in Live :
    users[i].assignedDoctorId # NULL => IsDoctor(users, users[i].assignedDoctorId)

\* the doctor of an assignment was removed between the lookup of the handler
\* and its save: the foreign key refuses the row and the table holds no
\* reference to the removed doctor
C3_Witness ==
  /\ isolation = Interleaved
  /\ rsp.op \in {"AdminUpdatePatient", "PatientPutMe"}
  /\ rsp.body.doc \in Ids \ Live
  /\ rsp.status = 500
  /\ rsp.id \in Live

\* C4: an assign request for patient p that names a well-formed id x which is
\* no doctor (no account, or an account of another role) answers 400 or 404
\* and leaves the whole table, so every field of p, as it was, also when the
\* request carries other fields that are valid.
EmailFree(table, self, e) ==
  e = NoEmail \/ \A j \in DOMAIN table \ {self} : table[j].email # toLowerCase(e)

C4_InvalidDoctorLeavesPatient ==
  [][(/\ rsp'.op \in {"AdminUpdatePatient", "PatientPutMe"}
      /\ rsp'.ran
      /\ rsp'.id \in Live
      /\ users[rsp'.id].role = PATIENT
      /\ rsp'.body.doc \in Ids
      /\ ~IsDoctor(users, rsp'.body.doc)
      /\ EmailFree(users, rsp'.id, rsp'.body.email))
     => rsp'.status \in {400, 404} /\ users' = users]_vars

\* a patient with a doctor sends PUT /patients/me with a new address, a new
\* password and the id of the root account as doctor, and gets 400
C4_Witness ==
  /\ rsp.op = "PatientPutMe"
  /\ rsp.status = 400
  /\ rsp.body.doc = 1
  /\ rsp.body.email = EmailC
  /\ rsp.body.password = "pw2"
  /\ rsp.id \in Live
  /\ users[rsp.id].role = PATIENT
  /\ users[rsp.id].assignedDoctorId # NULL
  /\ users[rsp.id].email = EmailA

CreateOps ==
  {"Register", "AdminCreateDoctor", "AdminCreatePatient",
   "DoctorRegisterPatient", "SuperCreateAdmin"}

\* a creation request that has every field its endpoint requires
WellFormedCreate(op, body) ==
  /\ body.email # NoEmail
  /\ body.password # Undef
  /\ op \in {"AdminCreateDoctor", "AdminCreatePatient", "DoctorRegisterPatient"}
       => body.firstName # Undef
  /\ op = "AdminCreatePatient" => IsDoctor(users, body.doc)
  /\ op = "Register" => body.doc \in {UNDEF, NULL} \/ IsDoctor(users, body.doc)

\* C5: on every creation endpoint, a well-formed request whose address is a
\* casing variant of the address of an existing account answers 409 and
\* creates no account.
C5_CasingVariantConflicts ==
  [][(/\ rsp'.op \in CreateOps
      /\ rsp'.ran
      /\ WellFormedCreate(rsp'.op, rsp'.body)
      /\ \E i \in Live : toLowerCase(users[i].email) = toLowerCase(rsp'.body.email))
     => rsp'.status = 409 /\ users' = users]_vars

\* C6: no two distinct accounts have addresses that are equal when compared
\* without regard to case.
C6_EmailUniqueIgnoringCase ==
  \A i \in Live : \A j \in Live \ {i} :
    toLowerCase(users[i].email) # toLowerCase(users[j].email)

\* C7: every stored address equals its own lowercase form.
C7_StoredEmailLowercase ==
  \A i \in Live : users[i].email = toLowerCase(users[i].email)

ProtectedOps ==
  {"PatientGetMe", "PatientPutMe", "PatientDeleteMe",
   "DoctorRegisterPatient", "DoctorPutMe", "DoctorDeleteMe",
   "AdminCreateDoctor", "AdminUpdateDoctor", "AdminDeleteDoctor",
   "AdminCreatePatient", "AdminUpdatePatient", "AdminDeletePatient",
   "SuperCreateAdmin", "SuperUpdateAdmin", "SuperDeleteAdmin",
   "DoctorGetMe", "AdminListDoctors", "AdminGetDoctor", "AdminListPatients",
   "AdminGetPatient", "SuperListAdmins", "SuperGetAdmin"}

\* the token a request carries
TokenOf(hdr) == IF hdr.scheme = "Bearer" THEN hdr.tok ELSE NoTok

\* C8: login signs the id and the role of the account with an expiry one hour
\* after the issue; a token that login issued verifies to that id and role at
\* every time before the hour has passed, and a request that carries it gets
\* that identity; once the hour has passed it does not verify and the request
\* is ended with 403 before the handler.
C8_TokenRoundTrip ==
  [][/\ (rsp'.op = "Login" /\ rsp'.status = 200)
          => /\ rsp'.id \in Live
             /\ users[rsp'.id].email = toLowerCase(rsp'.body.email)
             /\ rsp'.token.id = rsp'.id
             /\ rsp'.token.role = users[rsp'.id].role
             /\ rsp'.token.exp = now + 3600
             /\ rsp'.token \in tokens'
     /\ \A t \in tokens' :
          IF now' < t.iat + 3600
          THEN jwtVerify(t, secret', now') = [ok |-> TRUE, id |-> t.id, role |-> t.role]
          ELSE ~jwtVerify(t, secret', now').ok
     /\ (rsp'.op \in ProtectedOps /\ TokenOf(rsp'.hdr) \in tokens)
          => IF now < TokenOf(rsp'.hdr).iat + 3600
             THEN TokenOf(rsp'.hdr).id \in Live
                    => rsp'.user = [id |-> TokenOf(rsp'.hdr).id,
                                    role |-> TokenOf(rsp'.hdr).role]
             ELSE rsp'.status = 403 /\ ~rsp'.ran /\ rsp'.user = NoUser]_vars

\* a handler has run for a token half an hour after its issue while a token
\* issued an hour ago is held by a client
C8_Witness ==
  /\ rsp.op \in ProtectedOps
  /\ rsp.ran
  /\ TokenOf(rsp.hdr) \in tokens
  /\ now = TokenOf(rsp.hdr).iat + 1800
  /\ rsp.user.id = TokenOf(rsp.hdr).id
  /\ \E t \in tokens : now >= t.iat + 3600

\* a token that the server's key does not verify at the time of the request
InvalidToken(tok) == tok.fmt # "jwt" \/ tok.sig # SecretKey \/ now >= tok.exp

\* C9, as stated: a protected request is ended with 401 exactly when it
\* carries no bearer token and with 403 when its token is malformed, badly
\* signed or expired; in both cases the handler is not invoked and no identity
\* is attached.
C9_GateRejections ==
  [][rsp'.op \in ProtectedOps
     => LET tok == TokenOf(rsp'.hdr) IN
        /\ rsp'.status = 401 <=> tok = NoTok
        /\ rsp'.status = 401 => ~rsp'.ran /\ rsp'.user = NoUser
        /\ (tok # NoTok /\ InvalidToken(tok))
             => rsp'.status = 403 /\ ~rsp'.ran /\ rsp'.user = NoUser]_vars

\* C9, amended: the 403 for a malformed, badly signed or expired token is
\* given when the signing secret is configured.
C9_GateRejectionsWithSecret ==
  [][rsp'.op \in ProtectedOps
     => LET tok == TokenOf(rsp'.hdr) IN
        /\ rsp'.status = 401 <=> tok = NoTok
        /\ rsp'.status = 401 => ~rsp'.ran /\ rsp'.user = NoUser
        /\ (secret # NoSecret /\ tok # NoTok /\ InvalidToken(tok))
             => rsp'.status = 403 /\ ~rsp'.ran /\ rsp'.user = NoUser]_vars

\* a request with a token signed by another key is ended with 403
C9_Witness ==
  /\ rsp.op \in ProtectedOps
  /\ rsp.hdr.scheme = "Bearer"
  /\ rsp.hdr.tok.fmt = "jwt"
  /\ rsp.hdr.tok.sig = OtherKey
  /\ secret = SecretKey
  /\ rsp.status = 403
  /\ ~rsp.ran
  /\ rsp.user = NoUser

\* C10: a request that carries a token issued for an account that has been
\* deleted is ended with 403 before the handler.
C10_DeletedAccountTokenRejected ==
  [][(/\ rsp'.op \in ProtectedOps
      /\ TokenOf(rsp'.hdr) \in tokens
      /\ TokenOf(rsp'.hdr).id \notin Live)
     => rsp'.status = 403 /\ ~rsp'.ran /\ rsp'.user = NoUser]_vars

\* an unexpired, correctly signed token of a deleted account is refused
C10_Witness ==
  /\ rsp.op \in ProtectedOps
  /\ TokenOf(rsp.hdr) \in tokens
  /\ TokenOf(rsp.hdr).id \notin Live
  /\ TokenOf(rsp.hdr).sig = secret
  /\ now < TokenOf(rsp.hdr).exp
  /\ rsp.status = 403
  /\ ~rsp.ran

\* the roles each protected endpoint declares
RolesOf(op) ==
  CASE op \in {"PatientGetMe", "PatientPutMe", "PatientDeleteMe"} -> AnyRole
    [] op \in {"DoctorGetMe", "DoctorPutMe", "DoctorDeleteMe"} -> DoctorMeRoles
    [] op = "DoctorRegisterPatient" -> {DOCTOR}
    [] op \in {"SuperCreateAdmin", "SuperUpdateAdmin", "SuperDeleteAdmin",
                "SuperListAdmins", "SuperGetAdmin"} -> {SUPER_ADMIN}
    [] OTHER -> AdminRoles

\* C11: the handler of a protected endpoint runs only for a request whose
\* account is live and has a role the endpoint declares; a request of an
\* account with another role is ended with 403, a request the handler did not
\* run for leaves the table as it was, and the role check refuses a request
\* without identity.
C11_HandlerOnlyForAllowedRole ==
  [][rsp'.op \in ProtectedOps
     => /\ rsp'.ran => /\ rsp'.user.id \in Live
                       /\ rsp'.user.role = users[rsp'.user.id].role
                       /\ rsp'.user.role \in RolesOf(rsp'.op)
        /\ (/\ TokenOf(rsp'.hdr) \in tokens
            /\ TokenOf(rsp'.hdr).id \in Live
            /\ users[TokenOf(rsp'.hdr).id].role \notin RolesOf(rsp'.op))
             => rsp'.status = 403 /\ ~rsp'.ran
        /\ ~rsp'.ran => users' = users /\ nextId' = nextId
        /\ \A R \in SUBSET UserRole : ~allowRoles(R, NoUser)]_vars

\* a patient's request to delete a doctor is ended with 403 by the role check
C11_Witness ==
  /\ rsp.op = "AdminDeleteDoctor"
  /\ rsp.status = 403
  /\ ~rsp.ran
  /\ rsp.user.role = PATIENT
  /\ rsp.user.id \in Live
  /\ \E d \in Live : users[d].role = DOCTOR /\ rsp.id = d

\* what a client sees of a response
Seen(r) ==
  [status |-> r.status, msg |-> r.msg, token |-> r.token, data |-> r.data, n |-> r.n]

\* C12: a login with an address of no account and a login with the address of
\* an account and a wrong password get the same response, 401 with the same
\* message, and no token is issued.
C12_LoginFailuresAlike ==
  [][(/\ rsp'.op = "Login"
      /\ rsp'.body.email # NoEmail
      /\ \/ \A i \in Live : users[i].email # toLowerCase(rsp'.body.email)
         \/ \E i \in Live : /\ users[i].email = toLowerCase(rsp'.body.email)
                            /\ users[i].password # bcryptHash(rsp'.body.password))
     => /\ Seen(rsp') = [status |-> 401, msg |-> "Invalid credentials",
                         token |-> NoTok, data |-> {}, n |-> 0]
        /\ tokens' = tokens]_vars

\* a login with the address of an account and a wrong password is refused
C12_Witness ==
  /\ rsp.op = "Login"
  /\ rsp.status = 401
  /\ rsp.token = NoTok
  /\ \E i \in Live : /\ users[i].email = toLowerCase(rsp.body.email)
                     /\ users[i].password # bcryptHash(rsp.body.password)

\* C13: no request changes the role of an account; an id is given to one
\* account only, so the role an account has is the role it was created with.
C13_RoleNeverChanges ==
  [][/\ \A i \in DOMAIN users \cap DOMAIN users' : users'[i].role = users[i].role
     /\ \A i \in DOMAIN users' \ DOMAIN users : i = nextId /\ nextId' = nextId + 1
     /\ nextId' >= nextId]_vars

\* a patient's PUT /patients/me with role ADMIN in the body is answered 200
\* and the account is still a patient
C13_Witness ==
  /\ rsp.op = "PatientPutMe"
  /\ rsp.body.role = ADMIN
  /\ rsp.status = 200
  /\ rsp.id \in Live
  /\ users[rsp.id].role = PATIENT

\* C14: a patient account created through POST /doctors/register-patient
\* has role PATIENT and is assigned to the doctor who made the request,
\* whatever doctor id or role the request body carries.
C14_RegisteredPatientAssignedToCreator ==
  [][(rsp'.op = "DoctorRegisterPatient" /\ rsp'.status = 201) =>
       /\ rsp'.user.role = DOCTOR
       /\ DOMAIN users' = DOMAIN users \cup {rsp'.id}
       /\ rsp'.id \notin DOMAIN users
       /\ users'[rsp'.id].role = PATIENT
       /\ users'[rsp'.id].assignedDoctorId = rsp'.user.id
       /\ \A i \in DOMAIN users : users'[i] = users[i]]_vars

\* a doctor has registered a patient with another account's id as doctor in
\* the body, and the patient is assigned to the doctor
C14_Witness ==
  /\ rsp.op = "DoctorRegisterPatient"
  /\ rsp.status = 201
  /\ rsp.body.doc \in Live \ {rsp.user.id}
  /\ rsp.id \in Live
  /\ users[rsp.id].assignedDoctorId = rsp.user.id

\* C15: a self-registration with email and password of a free address and
\* a doctor id that is malformed, or names no account, or names an account
\* that is not a doctor, answers a client error and creates no account; with
\* the id of a doctor it creates a patient assigned to that doctor; with no
\* doctor id it creates a patient assigned to nobody.
C15_RegisterDoctorId ==
  [][(/\ rsp'.op = "Register"
      /\ rsp'.body.email # NoEmail
      /\ rsp'.body.password # Undef
      /\ \A i \in Live : users[i].email # toLowerCase(rsp'.body.email))
     => LET doc == rsp'.body.doc IN
        /\ (doc \notin {UNDEF, NULL} /\ ~IsDoctor(users, doc)) =>
             /\ rsp'.status \in 400..499
             /\ users' = users
        /\ IsDoctor(users, doc) =>
             /\ rsp'.status = 201
             /\ DOMAIN users' = DOMAIN users \cup {rsp'.id}
             /\ users'[rsp'.id].role = PATIENT
             /\ users'[rsp'.id].assignedDoctorId = doc
        /\ doc \in {UNDEF, NULL} =>
             /\ rsp'.status = 201
             /\ DOMAIN users' = DOMAIN users \cup {rsp'.id}
             /\ users'[rsp'.id].role = PATIENT
             /\ users'[rsp'.id].assignedDoctorId = NULL]_vars

\* the accounts of a table whose address is e when case is ignored
SameAddress(table, e) ==
  {i \in DOMAIN table : toLowerCase(table[i].email) = toLowerCase(e)}

\* C16: when creation requests with the same normalized address wait for the
\* store together, the store creates one account for the address; a request
\* whose write finds the address taken is answered 409 and creates nothing:
\* it is never answered 500 and never left unanswered.
C16_ConcurrentCreationOneWinner ==
  [][(/\ isolation = Interleaved
      /\ pending' # pending
      /\ rsp'.op \in CreateOps)
     => /\ Cardinality(SameAddress(users', rsp'.body.email)) <= 1
        /\ SameAddress(users, rsp'.body.email) # {} =>
             rsp'.status = 409 /\ users' = users]_vars

\* the credentials of a stored account
ValidCredentials(email, password) ==
  \E i \in Live : /\ users[i].email = toLowerCase(email)
                  /\ bcryptCompare(password, users[i].password)

\* C17: while the signing secret is absent no token is issued and no handler
\* runs for an identity; a protected request that carries a token is answered
\* 500, and every login is answered 500.
C17_NoSecretAlways500 ==
  [][secret = NoSecret =>
       /\ tokens' = tokens
       /\ rsp'.token = NoTok
       /\ rsp'.op \in ProtectedOps =>
            /\ ~rsp'.ran
            /\ rsp'.user = NoUser
            /\ TokenOf(rsp'.hdr) # NoTok => rsp'.status = 500
       /\ rsp'.op = "Login" => rsp'.status = 500]_vars

\* C17, amended: while the signing secret is absent no token is issued and no
\* handler runs for an identity; a protected request that carries a token is
\* answered 500, and so is a login with the credentials of an account; a login
\* with an unknown address or a wrong password is answered 401 as usual.
C17_NoSecretFailsClosed ==
  [][secret = NoSecret =>
       /\ tokens' = tokens
       /\ rsp'.token = NoTok
       /\ rsp'.op \in ProtectedOps =>
            /\ ~rsp'.ran
            /\ rsp'.user = NoUser
            /\ TokenOf(rsp'.hdr) # NoTok => rsp'.status = 500
       /\ rsp'.op = "Login" =>
            /\ rsp'.status \in {401, 500}
            /\ ValidCredentials(rsp'.body.email, rsp'.body.password)
                 => rsp'.status = 500]_vars

\* without a secret, a login with the password of the account is answered 500
C17_Witness ==
  /\ secret = NoSecret
  /\ rsp.op = "Login"
  /\ ValidCredentials(rsp.body.email, rsp.body.password)
  /\ rsp.status = 500
  /\ rsp.token = NoTok
  /\ tokens = {}

\* C18: no object of a response has the password of an account, neither the
\* object of the account the response is about nor the doctor embedded in it.
C18_NoPasswordInResponse ==
  \A v \in rsp.data : v.password = Omitted /\ v.assignedDoctor.password = Omitted

\* an update body that carries the doctor field and nothing else
OnlyDoctor(body) ==
  body.email = NoEmail /\ body.password = Undef /\ body.firstName = Undef

\* C19: the end-to-end sequence gives its outcomes in order, each step from the
\* state the step before it leaves: (1) a self-registration without a doctor
\* answers 201 and the patient is assigned to nobody; (2) an administrator's
\* doctor creation answers 201; (3) the administrator's update of the patient
\* with the doctor's id answers 200 and the patient is assigned to the doctor;
\* (4) the administrator's delete of the doctor, who has this one patient,
\* answers 409 with count 1 and changes nothing; (5) the administrator's
\* update of the patient with a null doctor answers 200 and the patient is
\* assigned to nobody; (6) the administrator's delete of the doctor, who has
\* no patient now, answers 204 and the doctor is gone.
C19_EndToEnd ==
  [][LET r == rsp'
         new == DOMAIN users' \ DOMAIN users
     IN
     /\ (/\ r.op = "Register"
         /\ r.body.email # NoEmail /\ r.body.password # Undef
         /\ r.body.doc = UNDEF
         /\ SameAddress(users, r.body.email) = {})
        => /\ r.status = 201
           /\ new = {r.id}
           /\ users'[r.id].role = PATIENT
           /\ users'[r.id].assignedDoctorId = NULL
     /\ (/\ r.op = "AdminCreateDoctor" /\ r.ran
         /\ WellFormedCreate(r.op, r.body)
         /\ SameAddress(users, r.body.email) = {})
        => /\ r.status = 201
           /\ new = {r.id}
           /\ IsDoctor(users', r.id)
           /\ AssignedTo(users', r.id) = {}
     /\ (/\ r.op = "AdminUpdatePatient" /\ r.ran
         /\ r.id \in Live /\ users[r.id].role = PATIENT
         /\ OnlyDoctor(r.body)
         /\ IsDoctor(users, r.body.doc))
        => /\ r.status = 200
           /\ users'[r.id].assignedDoctorId = r.body.doc
           /\ r.id \in AssignedTo(users', r.body.doc)
           /\ IsDoctor(users', r.body.doc)
     /\ (/\ r.op = "AdminDeleteDoctor" /\ r.ran
         /\ IsDoctor(users, r.id)
         /\ Cardinality(AssignedTo(users, r.id)) = 1)
        => /\ r.status = 409
           /\ r.n = 1
           /\ users' = users
     /\ (/\ r.op = "AdminUpdatePatient" /\ r.ran
         /\ r.id \in Live /\ users[r.id].role = PATIENT
         /\ OnlyDoctor(r.body)
         /\ r.body.doc = NULL)
        => /\ r.status = 200
           /\ users'[r.id].assignedDoctorId = NULL
           /\ \A d \in Ids : r.id \notin AssignedTo(users', d)
     /\ (/\ r.op = "AdminDeleteDoctor" /\ r.ran
         /\ IsDoctor(users, r.id)
         /\ AssignedTo(users, r.id) = {})
        => /\ r.status = 204
           /\ r.id \notin DOMAIN users'
     ]_vars

\* the fourth step of the sequence: the patient registered before the doctor
\* was created, hence without a doctor, was assigned to the doctor by an
\* update, and the delete of the doctor is refused with count 1
C19_Witness ==
  /\ rsp.op = "AdminDeleteDoctor"
  /\ rsp.status = 409
  /\ rsp.n = 1
  /\ IsDoctor(users, rsp.id)
  /\ \E p \in Live : /\ p < rsp.id
                     /\ users[p].role = PATIENT
                     /\ AssignedTo(users, rsp.id) = {p}

\* C20: an administrator's update of a patient with the id of a doctor and
\* nothing else answers 200 and sets the patient's doctor, changing nothing
\* else; when the patient is assigned to that doctor already the table is left
\* as it is, so a second application gives the state of the first.
C20_AssignIdempotent ==
  [][(/\ rsp'.op = "AdminUpdatePatient" /\ rsp'.ran
      /\ rsp'.id \in Live /\ users[rsp'.id].role = PATIENT
      /\ OnlyDoctor(rsp'.body)
      /\ IsDoctor(users, rsp'.body.doc))
     => /\ rsp'.status = 200
        /\ users' = [users EXCEPT ![rsp'.id].assignedDoctorId = rsp'.body.doc]
        /\ nextId' = nextId
        /\ users[rsp'.id].assignedDoctorId = rsp'.body.doc => users' = users]_vars

\* an assignment of a doctor to a patient created after the doctor is
\* answered 200 and the patient is assigned to the doctor
C20_Witness ==
  /\ rsp.op = "AdminUpdatePatient"
  /\ rsp.status = 200
  /\ OnlyDoctor(rsp.body)
  /\ IsDoctor(users, rsp.body.doc)
  /\ rsp.id \in Live
  /\ users[rsp.id].role = PATIENT
  /\ users[rsp.id].assignedDoctorId = rsp.body.doc
  /\ rsp.body.doc < rsp.id

\* the endpoints that take an account id from the path
PathIdOps ==
  {"AdminGetDoctor", "AdminUpdateDoctor", "AdminDeleteDoctor",
   "AdminGetPatient", "AdminUpdatePatient", "AdminDeletePatient",
   "SuperGetAdmin", "SuperUpdateAdmin", "SuperDeleteAdmin"}

\* a request whose body names a doctor and would get as far as the check of
\* that doctor: the required fields are there, the address is free, and the
\* account an update is for exists
ReachesDoctorCheck(op, id, body, caller) ==
  LET target == IF op = "PatientPutMe" THEN caller ELSE id
      free == \A j \in SameAddress(users, body.email) : j = target
  IN
  CASE op = "Register" ->
         body.email # NoEmail /\ body.password # Undef /\ free
    [] op = "AdminCreatePatient" ->
         /\ body.email # NoEmail /\ body.password # Undef /\ body.firstName # Undef
         /\ free
    [] op = "AdminUpdatePatient" ->
         /\ id \in Live /\ users[id].role = PATIENT
         /\ body.email = NoEmail \/ free
    [] op = "PatientPutMe" -> body.email = NoEmail \/ free
    [] OTHER -> FALSE

\* C21: a malformed identifier, in the path of an admin or super-admin
\* endpoint or as the doctor of a body, is answered 400 and nothing is written.
C21_MalformedIdRejected ==
  [][rsp'.ran =>
       /\ (rsp'.op \in PathIdOps /\ ~validateUUID(rsp'.id))
            => rsp'.status = 400 /\ users' = users
       /\ (/\ rsp'.body.doc \notin {UNDEF, NULL}
           /\ ~validateUUID(rsp'.body.doc)
           /\ ReachesDoctorCheck(rsp'.op, rsp'.id, rsp'.body, rsp'.user.id))
            => rsp'.status = 400 /\ users' = users]_vars

UpdateOps ==
  {"PatientPutMe", "DoctorPutMe", "AdminUpdateDoctor", "AdminUpdatePatient",
   "SuperUpdateAdmin"}

\* the role an update by id is scoped to; the /me updates take any account
ScopeOf(op) ==
  CASE op \in {"AdminGetDoctor", "AdminUpdateDoctor", "AdminDeleteDoctor"} -> {DOCTOR}
    [] op \in {"AdminGetPatient", "AdminUpdatePatient", "AdminDeletePatient"} -> {PATIENT}
    [] op \in {"SuperGetAdmin", "SuperUpdateAdmin", "SuperDeleteAdmin"} -> {ADMIN}
    [] OTHER -> UserRole

\* C22: an update that carries an email succeeds when the address is the one
\* the account has, in any casing, and no other account holds it; when another
\* account holds the address it is answered 409 and the account is unchanged.
C22_EmailUpdateExcludesSelf ==
  [][(/\ rsp'.op \in UpdateOps
      /\ rsp'.ran
      /\ rsp'.id \in Live
      /\ users[rsp'.id].role \in ScopeOf(rsp'.op)
      /\ rsp'.body.email # NoEmail)
     => LET holders == SameAddress(users, rsp'.body.email) IN
        /\ holders = {rsp'.id} => rsp'.status = 200
        /\ holders \ {rsp'.id} # {} =>
             /\ rsp'.status = 409
             /\ users' = users]_vars

\* the statuses a handler or the gate answers with
Statuses == {200, 201, 204, 400, 401, 403, 404, 409, 500}

\* a request during which the store or a codec raises an exception that is no
\* constraint violation: a login without email, a malformed id that reaches a
\* query, a password that cannot be hashed
Throws(r) ==
  \/ r.op = "Login" /\ r.body.email = NoEmail
  \/ /\ r.ran
     /\ r.op \in {"SuperGetAdmin", "SuperUpdateAdmin", "SuperDeleteAdmin"}
     /\ ~validateUUID(r.id)
  \/ /\ r.ran
     /\ r.op = "SuperCreateAdmin"
     /\ r.body.password = Undef \/ r.body.email = NoEmail
  \/ /\ r.ran
     /\ r.op \in {"Register", "PatientPutMe"}
     /\ r.body.doc \notin {UNDEF, NULL}
     /\ ~validateUUID(r.body.doc)
     /\ ReachesDoctorCheck(r.op, r.id, r.body, r.user.id)

\* C23: every request is answered, and a request during which an unmapped
\* exception is raised is answered 500.
C23_EveryRequestAnswered ==
  [][rsp'.op # "idle" =>
       /\ rsp'.status \in Statuses
       /\ Throws(rsp') => rsp'.status = 500]_vars

\* C24: an account that a step creates, under a key the store generates, has
\* the role its creator fixes: PATIENT by self-registration, by a doctor or by
\* an administrator, DOCTOR by an administrator (ADMIN or SUPER_ADMIN), ADMIN
\* by a SUPER_ADMIN only, and never SUPER_ADMIN.
C24_RoleFixedByCreator ==
  [][\A i \in {k \in DOMAIN users' \ DOMAIN users : k >= nextId} :
       LET role == users'[i].role
           caller == rsp'.user.role
       IN
       /\ rsp'.id = i
       /\ rsp'.op \in CreateOps
       /\ role # SUPER_ADMIN
       /\ rsp'.op = "Register" => role = PATIENT /\ rsp'.user = NoUser
       /\ rsp'.op = "DoctorRegisterPatient" => role = PATIENT /\ caller = DOCTOR
       /\ rsp'.op = "AdminCreatePatient" => role = PATIENT /\ caller \in {ADMIN, SUPER_ADMIN}
       /\ rsp'.op = "AdminCreateDoctor" => role = DOCTOR /\ caller \in {ADMIN, SUPER_ADMIN}
       /\ rsp'.op = "SuperCreateAdmin" => role = ADMIN /\ caller = SUPER_ADMIN
       /\ caller = DOCTOR => role = PATIENT
       /\ role = ADMIN => caller = SUPER_ADMIN
       /\ role = DOCTOR => caller \in {ADMIN, SUPER_ADMIN}]_vars

\* a super-admin's creation request that asks for role SUPER_ADMIN in its
\* body has created an ADMIN account
C24_Witness ==
  /\ rsp.op = "SuperCreateAdmin"
  /\ rsp.status = 201
  /\ rsp.user.role = SUPER_ADMIN
  /\ rsp.body.role = SUPER_ADMIN
  /\ rsp.id \in Live
  /\ users[rsp.id].role = ADMIN

\* an update by id that names at least one field the endpoint accepts
HasValidField(op, body) ==
  \/ body.email # NoEmail \/ body.password # Undef \/ body.firstName # Undef
  \/ op = "AdminUpdatePatient" /\ body.doc # UNDEF

\* C25: a get, update or delete by id of a doctor, a patient or an admin,
\* applied to the well-formed id of an account that has another role, is
\* answered 404 and the table is left as it is (an admin update names a field
\* the endpoint accepts, or it is refused with 400 before the lookup).
C25_WrongRoleNotFound ==
  [][(/\ rsp'.op \in PathIdOps
      /\ rsp'.ran
      /\ rsp'.id \in Live
      /\ users[rsp'.id].role \notin ScopeOf(rsp'.op)
      /\ rsp'.op \in {"AdminUpdateDoctor", "AdminUpdatePatient"}
           => HasValidField(rsp'.op, rsp'.body))
     => /\ rsp'.status = 404
        /\ users' = users]_vars

\* a delete of a patient, sent with the id of a doctor, is answered 404 and
\* the doctor is still there
C25_Witness ==
  /\ rsp.op = "AdminDeletePatient"
  /\ rsp.status = 404
  /\ rsp.ran
  /\ IsDoctor(users, rsp.id)

\* C26: only accounts with role PATIENT have a non-null assignedDoctorId.
C26_OnlyPatientsAssigned ==
  \A i \in Live : users[i].assignedDoctorId # NULL => users[i].role = PATIENT

\* C27: when the write of an admin delete of doctor d and the write of a
\* request that assigns a patient to d are awaited together, the delete
\* removes d only if no account is assigned to d at that moment, and the
\* assignment ends in success with d present or in a client error: it is
\* never answered 500.
C27_DeleteAssignRace ==
  [][(/\ isolation = Interleaved
      /\ pending' # pending
      /\ rsp'.op # "idle")
     => /\ rsp'.op = "AdminDeleteDoctor" =>
             /\ rsp'.status \in {204, 409}
             /\ rsp'.status = 204 => AssignedTo(users, rsp'.id) = {}
        /\ (/\ rsp'.op \in {"AdminUpdatePatient", "AdminCreatePatient", "Register"}
            /\ rsp'.body.doc \in Ids)
           => /\ rsp'.status \in {200, 201} \cup (400..499)
              /\ rsp'.status \in {200, 201} => IsDoctor(users', rsp'.body.doc)]_vars

MeOps == {"PatientPutMe", "PatientDeleteMe", "DoctorPutMe", "DoctorDeleteMe"}

\* C29: a self-service update or delete leaves every account other than the
\* caller's as it was, and adds none.
C29_MeTouchesOnlyCaller ==
  [][(rsp'.op \in MeOps /\ rsp'.ran)
     => /\ DOMAIN users' \subseteq DOMAIN users
        /\ \A i \in DOMAIN users \ {rsp'.user.id} :
             i \in DOMAIN users' /\ users'[i] = users[i]]_vars

\* the accounts the login looks up for an email and accepts the password of
Credentialed(table, email, password) ==
  {i \in DOMAIN table : /\ table[i].email = toLowerCase(email)
                        /\ bcryptCompare(password, table[i].password)}

\* C30: once a creation endpoint has answered 201 for an email and a password,
\* the account the login finds for that email, in the casing of the creation,
\* and that password is the created account; and a login whose email and
\* password are those of a stored account, with the signing key configured,
\* is answered 200 with a token whose subject is the id of that account.
C30_CreateThenLogin ==
  [][/\ (rsp'.op \in CreateOps /\ rsp'.status = 201)
          => Credentialed(users', rsp'.body.email, rsp'.body.password) = {rsp'.id}
     /\ (/\ rsp'.op = "Login"
         /\ rsp'.body.email # NoEmail
         /\ secret # NoSecret
         /\ Credentialed(users, rsp'.body.email, rsp'.body.password) # {})
          => /\ rsp'.status = 200
             /\ rsp'.token.id \in Credentialed(users, rsp'.body.email,
                                                rsp'.body.password)]_vars

\* the round trip on the creation endpoints that normalize the email
C30_NormalizingEndpoints ==
  [][/\ (rsp'.op \in CreateOps \ {"SuperCreateAdmin"} /\ rsp'.status = 201)
          => Credentialed(users', rsp'.body.email, rsp'.body.password) = {rsp'.id}
     /\ (/\ rsp'.op = "Login"
         /\ rsp'.body.email # NoEmail
         /\ secret # NoSecret
         /\ Credentialed(users, rsp'.body.email, rsp'.body.password) # {})
          => /\ rsp'.status = 200
             /\ rsp'.token.id \in Credentialed(users, rsp'.body.email,
                                                rsp'.body.password)]_vars

====
